---------------------------- MODULE Spec2Model ----------------------------
(***************************************************************************)
(* Model of the file categorization pipeline (ml_categorizer.py,           *)
(* FileClassifier) and of the search resolver (file_scanner.py,            *)
(* FileScanner.search_files) as they are driven by app.py.                 *)
(*                                                                         *)
(* File names, paths, extensions and categories are strings; the string    *)
(* predicates of the code (in, startswith, endswith, lower, re.sub) are    *)
(* computed character by character.                                        *)
(***************************************************************************)
EXTENDS Integers, Sequences, FiniteSets, TLC

(***************************************************************************)
(* Bounds of the model.                                                     *)
(***************************************************************************)
\* Longest sequence of distinct directory entries chosen freely in one scan
\* (a scan may in addition hold the block of Padding entries).
MaxHead == 3

(***************************************************************************)
(* Python string operations.                                                *)
(***************************************************************************)
UpperToLower ==
    [A |-> "a", B |-> "b", C |-> "c", D |-> "d", E |-> "e", F |-> "f",
     G |-> "g", H |-> "h", I |-> "i", J |-> "j", K |-> "k", L |-> "l",
     M |-> "m", N |-> "n", O |-> "o", P |-> "p", Q |-> "q", R |-> "r",
     S |-> "s", T |-> "t", U |-> "u", V |-> "v", W |-> "w", X |-> "x",
     Y |-> "y", Z |-> "z"]

UpperChars == DOMAIN UpperToLower

LowerChar(c) == IF c \in UpperChars THEN UpperToLower[c] ELSE c

\* str.lower()
RECURSIVE Lower(_)
Lower(s) ==
    IF Len(s) = 0 THEN ""
    ELSE LowerChar(SubSeq(s, 1, 1)) \o Lower(SubSeq(s, 2, Len(s)))

\* sub in s
Contains(s, sub) ==
    \E i \in 0..(Len(s) - Len(sub)) : SubSeq(s, i + 1, i + Len(sub)) = sub

\* A list built by a comprehension, with every element computed once.
List(f) == f \o <<>>

\* s.startswith(p)
StartsWith(s, p) == Len(p) <= Len(s) /\ SubSeq(s, 1, Len(p)) = p

\* s.endswith(x)
EndsWith(s, x) ==
    Len(x) <= Len(s) /\ SubSeq(s, Len(s) - Len(x) + 1, Len(s)) = x

Digits == <<"0", "1", "2", "3", "4", "5", "6", "7", "8", "9">>

\* str(n) for n >= 0, as used by the f-string f"Group {cluster + 1}"
RECURSIVE IntToStr(_)
IntToStr(n) ==
    IF n < 10 THEN Digits[n + 1]
    ELSE IntToStr(n \div 10) \o Digits[(n % 10) + 1]

\* The characters the pattern [0-9_\-\.\s] matches.
BaseNameStripped ==
    {Digits[i] : i \in 1..10} \cup {"_", "-", ".", " "}

\* re.sub(r'[0-9_\-\.\s]+', '', s)
RECURSIVE StripBaseName(_)
StripBaseName(s) ==
    IF Len(s) = 0 THEN ""
    ELSE (IF SubSeq(s, 1, 1) \in BaseNameStripped THEN "" ELSE SubSeq(s, 1, 1))
         \o StripBaseName(SubSeq(s, 2, Len(s)))

(***************************************************************************)
(* FileClassifier.__init__ : the fixed tables and the model parameters.     *)
(***************************************************************************)
None == "<None>"

extension_categories ==
    ("pdf" :> "Documents") @@ ("doc" :> "Documents") @@ ("docx" :> "Documents") @@
    ("txt" :> "Documents") @@ ("rtf" :> "Documents") @@ ("odt" :> "Documents") @@
    ("md" :> "Documents") @@
    ("xls" :> "Spreadsheets") @@ ("xlsx" :> "Spreadsheets") @@
    ("csv" :> "Spreadsheets") @@ ("ods" :> "Spreadsheets") @@
    ("ppt" :> "Presentations") @@ ("pptx" :> "Presentations") @@
    ("odp" :> "Presentations") @@
    ("jpg" :> "Images") @@ ("jpeg" :> "Images") @@ ("png" :> "Images") @@
    ("gif" :> "Images") @@ ("bmp" :> "Images") @@ ("svg" :> "Images") @@
    ("tiff" :> "Images") @@ ("webp" :> "Images") @@
    ("mp3" :> "Audio") @@ ("wav" :> "Audio") @@ ("flac" :> "Audio") @@
    ("ogg" :> "Audio") @@ ("aac" :> "Audio") @@
    ("mp4" :> "Video") @@ ("avi" :> "Video") @@ ("mkv" :> "Video") @@
    ("mov" :> "Video") @@ ("wmv" :> "Video") @@ ("webm" :> "Video") @@
    ("zip" :> "Archives") @@ ("rar" :> "Archives") @@ ("tar" :> "Archives") @@
    ("gz" :> "Archives") @@ ("7z" :> "Archives") @@
    ("py" :> "Code") @@ ("js" :> "Code") @@ ("html" :> "Code") @@
    ("css" :> "Code") @@ ("java" :> "Code") @@ ("cpp" :> "Code") @@
    ("c" :> "Code") @@ ("h" :> "Code") @@ ("php" :> "Code") @@
    ("go" :> "Code") @@ ("rb" :> "Code") @@ ("rs" :> "Code") @@
    ("sh" :> "Code") @@ ("json" :> "Code") @@ ("xml" :> "Code") @@
    ("sql" :> "Code") @@
    ("exe" :> "Executables") @@ ("msi" :> "Executables") @@
    ("app" :> "Executables") @@ ("dll" :> "Executables") @@
    ("so" :> "Executables") @@ ("bin" :> "Executables") @@
    ("sys" :> "System") @@ ("ini" :> "System") @@ ("log" :> "System") @@
    ("dat" :> "System") @@ ("bak" :> "System") @@ ("tmp" :> "System") @@
    ("config" :> "System")

\* The dict keeps its insertion order: a sequence of (subject, keywords).
academic_patterns == <<
    [subject |-> "Engineering_Drawing", keywords |-> <<
        "drawing", "engineering", "mechanical", "cad", "autocad", "projection",
        "dimension", "blueprint", "technical drawing", "schematic", "isometric",
        "orthographic", "assembly", "drafting", "design", "component">>],
    [subject |-> "Mathematics", keywords |-> <<
        "math", "equation", "calculus", "algebra", "geometry", "theorem",
        "function", "statistical", "statistics", "probability", "mathematical",
        "formula", "derivative", "integral", "matrix", "vector", "differential">>],
    [subject |-> "Physics", keywords |-> <<
        "physics", "mechanics", "dynamics", "kinematics", "force", "energy",
        "thermodynamics", "electricity", "magnetism", "quantum", "relativity",
        "fluid dynamics", "optics", "wave", "particle">>],
    [subject |-> "Chemistry", keywords |-> <<
        "chemistry", "chemical", "molecule", "atom", "compound", "reaction",
        "organic", "inorganic", "solution", "acid", "base", "element", "periodic",
        "biochemistry", "polymer">>],
    [subject |-> "Computer_Science", keywords |-> <<
        "algorithm", "data structure", "programming", "software", "database",
        "network", "artificial intelligence", "machine learning", "computer",
        "operating system", "security", "web", "cloud computing">>]
>>

\* `x in self.academic_patterns` : the keys of the dict.
AcademicSubjects ==
    {academic_patterns[i].subject : i \in DOMAIN academic_patterns}

\* KMeans(n_clusters=10)
n_clusters == 10

\* `len(filenames) < 10` in _train_model
MinTrainingFiles == 10

\* `len(files_info) >= 10` in categorize_files
MinCorpusSize == 10

(***************************************************************************)
(* FileScanner.scan_directory / _get_file_info : the records of a scan.     *)
(***************************************************************************)
\* Index of the last "." of s, 0 when there is none.
LastDot(s) ==
    LET dots == {i \in 1..Len(s) : SubSeq(s, i, i) = "."}
    IN  IF dots = {} THEN 0 ELSE CHOOSE i \in dots : \A j \in dots : j <= i

\* os.path.splitext(filename)[1] : the extension with its dot, "" when the
\* name has no dot or only leading dots.
SplitExt(filename) ==
    LET d == LastDot(filename)
    IN  IF d = 0 \/ (\A i \in 1..(d - 1) : SubSeq(filename, i, i) = ".")
        THEN ""
        ELSE SubSeq(filename, d, Len(filename))

\* _get_file_info : entry is what os.walk and os.stat give for one file.
GetFileInfo(entry) ==
    LET ext == SplitExt(entry.name)
    IN  [name       |-> entry.name,
         path       |-> entry.dir \o "/" \o entry.name,
         extension  |-> IF ext # "" THEN SubSeq(Lower(ext), 2, Len(ext)) ELSE "",
         size_bytes |-> entry.size,
         modified   |-> entry.mtime,
         category   |-> None]

\* Lines 47-55 : the body of the loop over the files os.walk yields; a
\* hidden file is skipped, another one is appended to files_info.
ScanOne(files_info, entry) ==
    IF StartsWith(entry.name, ".") THEN files_info
    ELSE Append(files_info, GetFileInfo(entry))

\* scan_directory : the loop over a whole listing.
RECURSIVE ScanDirectory(_)
ScanDirectory(listing) ==
    IF listing = <<>> THEN <<>>
    ELSE ScanOne(ScanDirectory(SubSeq(listing, 1, Len(listing) - 1)),
                 listing[Len(listing)])

(***************************************************************************)
(* The directories scanned.                                                 *)
(***************************************************************************)
Entry(dir, name, size, mtime) ==
    [dir |-> dir, name |-> name, size |-> size, mtime |-> mtime]

\* The files a scanned directory may hold beside the padding.
Entries ==
    { Entry("/d", "app_config.txt", 100, 1),
      Entry("/d", "config.ini", 100, 1),
      Entry("/d", "calculus_1.pdf", 500, 2),
      Entry("/d", "Calculus_2.PDF", 500, 2),
      Entry("/project", "calculus_3.pdf", 500, 3),
      Entry("/d", "random.pdf", 2000, 3),
      Entry("/d", "math_physics.pdf", 2000, 2),
      Entry("/d", "technical_temp.pdf", 500, 1),
      Entry("/d", "database.db", 2000, 1),
      Entry("/d", "readme", 100, 3),
      Entry("/d", "cache.xyz", 100, 2),
      Entry("/d", ".hidden.txt", 100, 1) }

\* A block of image files that brings a scan to the size the cluster stage
\* needs: with it a scan of one more file has 9 records, of two more 10.
PadLen == MinCorpusSize - 2

Padding ==
    List([i \in 1..PadLen |-> Entry("/d", "img" \o IntToStr(i) \o ".png", 100, 1)])

\* The records a scan can produce.
ScannedRecords ==
    {GetFileInfo(e) : e \in Entries \cup {Padding[i] : i \in 1..PadLen}}

(***************************************************************************)
(* FileClassifier.categorize_files, stage by stage.                         *)
(***************************************************************************)
\* Faulty variant of ExtensionCategory : the else branch of line 212 is
\* missing, an extension the table lacks leaves the category unset.
ExtensionCategoryNoDefault(extension) ==
    LET ext == Lower(extension)
    IN  IF ext \in DOMAIN extension_categories
        THEN extension_categories[ext]
        ELSE None

\* Lines 209-213 : the category the extension stage writes.
ExtensionCategory(extension) ==
    LET ext == Lower(extension)
    IN  IF ext \in DOMAIN extension_categories
        THEN extension_categories[ext]
        ELSE "Other"

\* Faulty variant of ExtensionStage : ext is read once, from the first
\* record, instead of inside the loop.
ExtensionStageFirstExt(fs) ==
    List([i \in DOMAIN fs |->
            [fs[i] EXCEPT !.category = ExtensionCategory(fs[1].extension)]])

\* Faulty variant of ExtensionStage : a record that arrives with a category
\* keeps it.
ExtensionStageKeepsGiven(fs) ==
    List([i \in DOMAIN fs |->
            IF fs[i].category = None
            THEN [fs[i] EXCEPT !.category = ExtensionCategory(fs[i].extension)]
            ELSE fs[i]])

\* Lines 208-213
ExtensionStage(fs) ==
    List([i \in DOMAIN fs |->
            [fs[i] EXCEPT !.category = ExtensionCategory(fs[i].extension)]])

\* Lines 273-276 : some keyword of the list occurs in name or path.
KeywordHit(keywords, name, path) ==
    \E j \in DOMAIN keywords :
        Contains(name, Lower(keywords[j])) \/ Contains(path, Lower(keywords[j]))

\* Faulty variant of SubjectScan : the first subject with a hit ends the
\* whole scan (the break leaves both loops).
RECURSIVE SubjectScanFirstWins(_, _, _, _)
SubjectScanFirstWins(cat, name, path, k) ==
    IF k > Len(academic_patterns) THEN cat
    ELSE IF KeywordHit(academic_patterns[k].keywords, name, path)
         THEN academic_patterns[k].subject
         ELSE SubjectScanFirstWins(cat, name, path, k + 1)

\* Lines 272-276 : the subjects are visited in dict order from the k-th on;
\* a hit assigns the subject and breaks out of the keyword loop only.
RECURSIVE SubjectScan(_, _, _, _)
SubjectScan(cat, name, path, k) ==
    IF k > Len(academic_patterns) THEN cat
    ELSE SubjectScan(
            IF KeywordHit(academic_patterns[k].keywords, name, path)
            THEN academic_patterns[k].subject
            ELSE cat,
            name, path, k + 1)

\* Lines 268-276 : the category the subject loop leaves a record of
\* category cat, name and path with.
SubjectOf(cat, name, path) == SubjectScan(cat, Lower(name), Lower(path), 1)

\* SubjectOf tabulated once for the records a scan can produce.
SubjectTable ==
    [k \in {<<cat, r.name, r.path>> :
                cat \in {"Documents", "Other"}, r \in ScannedRecords} |->
        SubjectOf(k[1], k[2], k[3])] @@ <<>>

\* Faulty variant of IdentifyAcademic : only the records without a
\* category of the extension table are looked at.
IdentifyAcademicOtherOnly(f) ==
    IF f.category # "Other" THEN f
    ELSE [f EXCEPT !.category = SubjectOf(f.category, f.name, f.path)]

\* Lines 263-276, one record.
IdentifyAcademic(f) ==
    IF f.category \notin {"Documents", "Other"} THEN f
    ELSE [f EXCEPT !.category =
            IF <<f.category, f.name, f.path>> \in DOMAIN SubjectTable
            THEN SubjectTable[<<f.category, f.name, f.path>>]
            ELSE SubjectOf(f.category, f.name, f.path)]

\* _identify_academic_documents
IdentifyAcademicDocuments(fs) ==
    List([i \in DOMAIN fs |-> IdentifyAcademic(fs[i])])

\* Lines 224-227 : the positions of the records still 'Other'.
Uncategorized(fs) == {i \in DOMAIN fs : fs[i].category = "Other"}

\* _train_model : the value of self.trained after the call.  fitRaises says
\* whether self.model.fit raises.
TrainModel(fs, wasTrained, fitRaises) ==
    IF Len(fs) < MinTrainingFiles THEN wasTrained
    ELSE IF fitRaises THEN wasTrained
    ELSE TRUE

\* Lines 229-233 : self.trained after the training step of the call.
TrainedAfter(fs, wasTrained, fitRaises) ==
    IF Uncategorized(fs) # {} /\ Len(fs) >= MinCorpusSize
    THEN TrainModel(fs, wasTrained, fitRaises)
    ELSE wasTrained

\* Faulty variant of GroupLabel : the cluster index is not shifted.
GroupLabelFromZero(cluster) == "Group " \o IntToStr(cluster)

\* Line 244 : f"Group {cluster + 1}"
GroupLabel(cluster) == "Group " \o IntToStr(cluster + 1)

\* Faulty variant of ClusterStage : the labelled records replace the list
\* (files_info is rebound to uncategorized_files).
ClusterStageKeepsUnresolvedOnly(fs, wasTrained, fitRaises, predictRaises, labels) ==
    IF Uncategorized(fs) = {} THEN fs
    ELSE IF ~TrainedAfter(fs, wasTrained, fitRaises) THEN fs
    ELSE IF predictRaises THEN fs
    ELSE LET unresolved == SelectSeq(fs, LAMBDA f : f.category = "Other")
         IN  List([i \in DOMAIN unresolved |->
                [unresolved[i] EXCEPT
                    !.category = GroupLabel(labels[unresolved[i].name])]])

\* Faulty variant of ClusterStage : only the first unresolved record gets
\* its cluster label.
ClusterStageFirstUnresolvedOnly(fs, wasTrained, fitRaises, predictRaises, labels) ==
    IF Uncategorized(fs) = {} THEN fs
    ELSE IF ~TrainedAfter(fs, wasTrained, fitRaises) THEN fs
    ELSE IF predictRaises THEN fs
    ELSE List([i \in DOMAIN fs |->
            IF fs[i].category = "Other"
               /\ \A j \in Uncategorized(fs) : i <= j
            THEN [fs[i] EXCEPT !.category = GroupLabel(labels[fs[i].name])]
            ELSE fs[i]])

\* Lines 229-246 : labels[name] is the cluster self.model.predict gives the
\* name, predictRaises says whether predict raises.
ClusterStage(fs, wasTrained, fitRaises, predictRaises, labels) ==
    IF Uncategorized(fs) = {} THEN fs
    ELSE IF ~TrainedAfter(fs, wasTrained, fitRaises) THEN fs
    ELSE IF predictRaises THEN fs
    ELSE List([i \in DOMAIN fs |->
            IF fs[i].category = "Other"
            THEN [fs[i] EXCEPT !.category = GroupLabel(labels[fs[i].name])]
            ELSE fs[i]])

(***************************************************************************)
(* _apply_categorization_heuristics                                         *)
(***************************************************************************)
\* Lines 324-329
EngineeringDrawingName(name) ==
    \/ Contains(name, "drawing") \/ Contains(name, "projection")
    \/ Contains(name, "mechanical") \/ Contains(name, "engineering")
    \/ Contains(name, "cad") \/ Contains(name, "technical")
    \/ Contains(name, "blueprint") \/ Contains(name, "schematic")
    \/ Contains(name, "orthographic") \/ Contains(name, "isometric")

\* Lines 334-338
MathematicsName(name) ==
    \/ Contains(name, "math") \/ Contains(name, "calculus")
    \/ Contains(name, "algebra") \/ Contains(name, "equation")
    \/ Contains(name, "geometry") \/ Contains(name, "theorem")
    \/ Contains(name, "formula") \/ Contains(name, "statistical")

\* Lines 343-346
PhysicsName(name) ==
    \/ Contains(name, "physics") \/ Contains(name, "force")
    \/ Contains(name, "energy") \/ Contains(name, "mechanics")
    \/ Contains(name, "dynamics") \/ Contains(name, "kinematics")

\* Lines 351-354
ChemistryName(name) ==
    \/ Contains(name, "chemistry") \/ Contains(name, "molecule")
    \/ Contains(name, "chemical") \/ Contains(name, "compound")
    \/ Contains(name, "reaction") \/ Contains(name, "organic")

\* Lines 359-362
ComputerScienceName(name) ==
    \/ Contains(name, "algorithm") \/ Contains(name, "data structure")
    \/ Contains(name, "programming") \/ Contains(name, "database")
    \/ Contains(name, "software") \/ Contains(name, "network")

\* Faulty variant of IsConfiguration : endswith('config') is asked of the
\* name without its extension.
IsConfigurationOnStem(name) ==
    \/ StartsWith(name, "config")
    \/ EndsWith(SubSeq(name, 1, Len(name) - Len(SplitExt(name))), "config")
    \/ EndsWith(name, ".cfg") \/ EndsWith(name, ".ini")
    \/ EndsWith(name, ".conf")

\* Lines 369-373
IsConfiguration(name) ==
    \/ StartsWith(name, "config") \/ EndsWith(name, "config")
    \/ EndsWith(name, ".cfg") \/ EndsWith(name, ".ini")
    \/ EndsWith(name, ".conf")

\* Lines 377-380
IsDatabase(name) ==
    \/ EndsWith(name, ".db") \/ EndsWith(name, ".sqlite")
    \/ EndsWith(name, ".sqlite3") \/ EndsWith(name, ".mdb")

\* Lines 384-387
IsBackup(name) ==
    \/ EndsWith(name, ".bak") \/ EndsWith(name, ".backup")
    \/ EndsWith(name, "~") \/ Contains(name, ".backup")

\* Lines 391-394
IsTemporary(name) ==
    \/ StartsWith(name, "tmp") \/ EndsWith(name, ".tmp")
    \/ Contains(name, "temp") \/ Contains(name, "cache")

\* Lines 398-400
IsProject(path) ==
    \/ Contains(path, "project") \/ Contains(path, "workspace")
    \/ Contains(path, ".git")

\* Lines 404-407
IsFonts(name) ==
    \/ EndsWith(name, ".ttf") \/ EndsWith(name, ".otf")
    \/ EndsWith(name, ".woff") \/ EndsWith(name, ".woff2")

\* The generic rules as one if/elif chain: the first rule that matches
\* decides.
GenericRulesFirstWins(cat, name, path) ==
    IF IsConfiguration(name) THEN "Configuration"
    ELSE IF IsDatabase(name) THEN "Database"
    ELSE IF IsBackup(name) THEN "Backup"
    ELSE IF IsTemporary(name) THEN "Temporary"
    ELSE IF IsProject(path) THEN "Project"
    ELSE IF IsFonts(name) THEN "Fonts"
    ELSE cat

\* The generic rules applied only to records the cluster stage did not
\* label.
GenericRulesSparesGroups(cat, name, path) ==
    IF cat \in {GroupLabel(k) : k \in 0..(n_clusters - 1)} THEN cat
    ELSE LET c1 == IF IsConfiguration(name) THEN "Configuration" ELSE cat
             c2 == IF IsDatabase(name) THEN "Database" ELSE c1
             c3 == IF IsBackup(name) THEN "Backup" ELSE c2
             c4 == IF IsTemporary(name) THEN "Temporary" ELSE c3
             c5 == IF IsProject(path) THEN "Project" ELSE c4
             c6 == IF IsFonts(name) THEN "Fonts" ELSE c5
         IN  c6

\* Lines 366-408 : six independent `if`s, each overwriting the category.
GenericRules(cat, name, path) ==
    LET c1 == IF IsConfiguration(name) THEN "Configuration" ELSE cat
        c2 == IF IsDatabase(name) THEN "Database" ELSE c1
        c3 == IF IsBackup(name) THEN "Backup" ELSE c2
        c4 == IF IsTemporary(name) THEN "Temporary" ELSE c3
        c5 == IF IsProject(path) THEN "Project" ELSE c4
        c6 == IF IsFonts(name) THEN "Fonts" ELSE c5
    IN  c6

\* Lines 317-408, one record : the body of the loop.  A subject block that
\* fires ends the iteration (continue), so the generic rules are skipped.
HeuristicCategory(f) ==
    LET name == Lower(f.name)
        path == Lower(f.path)
    IN  IF f.category = "Documents" /\ EngineeringDrawingName(name)
            THEN "Engineering_Drawing"
        ELSE IF f.category = "Documents" /\ MathematicsName(name)
            THEN "Mathematics"
        ELSE IF f.category = "Documents" /\ PhysicsName(name)
            THEN "Physics"
        ELSE IF f.category = "Documents" /\ ChemistryName(name)
            THEN "Chemistry"
        ELSE IF f.category = "Documents" /\ ComputerScienceName(name)
            THEN "Computer_Science"
        ELSE GenericRules(f.category, name, path)

\* Every category a stage of categorize_files can write.
AllCategories ==
    {extension_categories[e] : e \in DOMAIN extension_categories}
    \cup {"Other"} \cup AcademicSubjects
    \cup {"Configuration", "Database", "Backup", "Temporary", "Project", "Fonts"}
    \cup {GroupLabel(c) : c \in 0..(n_clusters - 1)}

\* HeuristicCategory tabulated once for the records a scan can produce.
HeuristicTable ==
    [f \in {[r EXCEPT !.category = c] : r \in ScannedRecords, c \in AllCategories}
        |-> HeuristicCategory(f)] @@ <<>>

\* _apply_categorization_heuristics
ApplyCategorizationHeuristics(fs) ==
    List([i \in DOMAIN fs |->
            [fs[i] EXCEPT !.category =
                IF fs[i] \in DOMAIN HeuristicTable
                THEN HeuristicTable[fs[i]]
                ELSE HeuristicCategory(fs[i])]])

(***************************************************************************)
(* _group_similar_files                                                     *)
(***************************************************************************)
\* Lines 291-293
BaseNameOf(name) == StripBaseName(Lower(name))

\* BaseNameOf tabulated once for the records a scan can produce.
BaseNameTable ==
    [n \in {r.name : r \in ScannedRecords} |-> BaseNameOf(n)] @@ <<>>

BaseName(f) ==
    IF f.name \in DOMAIN BaseNameTable THEN BaseNameTable[f.name]
    ELSE BaseNameOf(f.name)

\* Lines 290-295 : name_groups[b], the positions of the records whose base
\* name is b; only base names longer than 3 characters are keys.
NameGroup(fs, b) == {i \in DOMAIN fs : BaseName(fs[i]) = b}

NameGroupKeys(fs) ==
    {b \in {BaseName(fs[i]) : i \in DOMAIN fs} : Len(b) > 3}

\* Line 299 : the groups the second loop acts on.
SharedKeys(fs) == {b \in NameGroupKeys(fs) : Cardinality(NameGroup(fs, b)) >= 2}

\* categories.count(c) over the group of b
CategoryCount(fs, b, c) ==
    Cardinality({i \in NameGroup(fs, b) : fs[i].category = c})

\* Line 302 : max(set(categories), key=categories.count) returns the first
\* category of highest count in the iteration order of a set of strings,
\* which string hashing does not fix: any category of highest count.
MostCommonCategories(fs, b) ==
    LET cats == {fs[i].category : i \in NameGroup(fs, b)}
    IN  {c \in cats :
            \A d \in cats : CategoryCount(fs, b, d) <= CategoryCount(fs, b, c)}

\* The possible results of line 302 for all shared groups together.
MostCommonChoices(fs) ==
    LET keys == SharedKeys(fs)
        cand == UNION {MostCommonCategories(fs, b) : b \in keys}
    IN  {pick \in [keys -> cand] :
            \A b \in keys : pick[b] \in MostCommonCategories(fs, b)}

\* Faulty variant of GroupSimilarFiles : the inner loop runs over files_info
\* instead of over the group.
GroupSimilarFilesWholeList(fs, pick) ==
    LET academic == {b \in DOMAIN pick : pick[b] \in AcademicSubjects}
    IN  IF academic = {} THEN fs
        ELSE List([i \in DOMAIN fs |->
                [fs[i] EXCEPT !.category = pick[CHOOSE b \in academic : TRUE]]])

\* The regrouping without the test of line 305: the most common category
\* of a group is given to its members whatever it is.
GroupSimilarFilesAnyCategory(fs, pick) ==
    List([i \in DOMAIN fs |->
            LET b == BaseName(fs[i])
            IN  IF b \in DOMAIN pick
                THEN [fs[i] EXCEPT !.category = pick[b]]
                ELSE fs[i]])

\* Lines 298-308 : pick[b] is most_common_category of the group of b.
GroupSimilarFiles(fs, pick) ==
    List([i \in DOMAIN fs |->
            LET b == BaseName(fs[i])
            IN  IF b \in DOMAIN pick /\ pick[b] \in AcademicSubjects
                THEN [fs[i] EXCEPT !.category = pick[b]]
                ELSE fs[i]])

(***************************************************************************)
(* State.                                                                   *)
(***************************************************************************)
VARIABLES
    pc,         \* where the POST /api/scan handler is: "idle" before the
                \* first request, "scanning" in scan_directory, "categorized"
                \* when categorize_files has returned
    files,      \* files_info: the list scan_directory builds and
                \* categorize_files is given, mutates in place, and returns
    given,      \* the records as they were when categorize_files was called
    trained,    \* FileClassifier.trained of the shared file_classifier
    stages,     \* the categories at the end of each stage of that call
    call,       \* what the cluster stage of that call did: self.trained on
                \* entry, how fit and predict ended ("none" when not
                \* reached, "ok", "raised"), the clusters predict gave,
                \* the category line 302 took for each shared base name
    search,     \* the POST /api/search request being written or answered:
                \* its query and filters, and once search_files has
                \* returned, the list it returned and the tier that made it
    threads     \* the search_files calls that run at the same time on the
                \* shared file_scanner: what self.vectorizer was last
                \* fitted on, and where each call is

vars == <<pc, files, given, trained, stages, call, search, threads>>

Categories(fs) == List([i \in DOMAIN fs |-> fs[i].category])

NoStages ==
    [extension |-> <<>>, subject |-> <<>>, cluster |-> <<>>, heuristics |-> <<>>]

NoCall ==
    [wasTrained |-> FALSE, fit |-> "none", predict |-> "none", labels |-> <<>>,
     pick |-> <<>>]

\* JSON values of a request body.
JsonNull == [type |-> "null"]
JsonNumber(n) == [type |-> "number", num |-> n]
JsonList(items) == [type |-> "list", items |-> items]
JsonString(str) == [type |-> "string", str |-> str]
JsonObject(fields) == [type |-> "object", fields |-> fields]

\* No key at all: the empty dict.
EmptyDict == [k \in {} |-> JsonNull]

\* The most search_files calls running at the same time.
MaxThreads == 2

Threads == 1..MaxThreads

\* No search_files call running, self.vectorizer as __init__ leaves it
\* (file_scanner.py lines 19-25).
NoThread ==
    [pc |-> "idle", query |-> "", filters |-> JsonNull,
     alone |-> [raises |-> FALSE, similarities |-> <<>>, ranked |-> <<>>],
     fitted_on |-> <<>>, result |-> <<>>, tier |-> "none"]

NoThreads ==
    [vectorizer |-> [fitted |-> FALSE, documents |-> <<>>],
     at |-> [t \in Threads |-> NoThread]]

NoSearch ==
    [pc |-> "writing", query |-> "", filters |-> JsonObject(EmptyDict),
     result |-> <<>>, tier |-> "none",
     vector |-> [raises |-> FALSE, similarities |-> <<>>, ranked |-> <<>>]]

Init ==
    /\ pc = "idle"
    /\ files = <<>>
    /\ given = <<>>
    /\ trained = FALSE
    /\ stages = NoStages
    /\ call = NoCall
    /\ search = NoSearch
    /\ threads = NoThreads

(***************************************************************************)
(* POST /api/scan (app.py lines 44-78) : scan_directory builds the list,    *)
(* categorize_files labels it.                                              *)
(***************************************************************************)
\* scan_directory, line 40 : files_info = []
StartScan ==
    /\ pc \in {"idle", "categorized"}
    /\ pc' = "scanning"
    /\ files' = <<>>
    /\ given' = <<>>
    /\ stages' = NoStages
    /\ call' = NoCall
    /\ UNCHANGED <<trained, search, threads>>

HasPadding(fs) == \E i \in DOMAIN fs : fs[i].name = Padding[1].name

\* scan_directory, lines 47-57 : os.walk yields one more file.
ScanFile(entry) ==
    /\ pc = "scanning"
    /\ ~HasPadding(files)
    /\ Len(files) < MaxHead
    /\ \A i \in DOMAIN files : files[i].path # GetFileInfo(entry).path
    /\ files' = ScanOne(files, entry)
    /\ UNCHANGED <<pc, given, trained, stages, call, search, threads>>

\* scan_directory, lines 43-57 : os.walk yields the directory of padding
\* images, the last one of the walk.
ScanPadding ==
    /\ pc = "scanning"
    /\ ~HasPadding(files)
    /\ files' = files \o ScanDirectory(Padding)
    /\ UNCHANGED <<pc, given, trained, stages, call, search, threads>>

\* Whether the call reaches self.model.fit (lines 229-232, 185-191).
FitAttempted(fs) ==
    /\ Uncategorized(fs) # {}
    /\ Len(fs) >= MinCorpusSize
    /\ Len(fs) >= MinTrainingFiles

\* Whether the call reaches self.model.predict (lines 229, 235-239).
PredictAttempted(fs, wasTrained, fitRaises) ==
    Uncategorized(fs) # {} /\ TrainedAfter(fs, wasTrained, fitRaises)

\* The outcomes of fit and predict the call can meet: each may raise when
\* it is reached.
FitRaisesChoices(fs) == IF FitAttempted(fs) THEN BOOLEAN ELSE {FALSE}

PredictRaisesChoices(fs, wasTrained, fitRaises) ==
    IF PredictAttempted(fs, wasTrained, fitRaises) THEN BOOLEAN ELSE {FALSE}

\* The clusters the model lets predict answer with: the first two and the
\* last of the n_clusters.
ClusterSample == {0, 1, n_clusters - 1}

\* The clusters predict may give the names of the unresolved records: the
\* same name gets the same cluster.
LabelChoices(fs) ==
    [{fs[i].name : i \in Uncategorized(fs)} -> ClusterSample]

\* categorize_files from the cluster stage on (lines 218-254) : s1 and s2
\* are the records after the extension stage and after
\* _identify_academic_documents.
CategorizeTail(s1, s2, fitRaises, predictRaises, labels) ==
    LET s3 == ClusterStage(s2, trained, fitRaises, predictRaises, labels)
        s4 == ApplyCategorizationHeuristics(s3)
    IN  /\ \E pick \in MostCommonChoices(s4) :
            /\ files' = GroupSimilarFiles(s4, pick)
            /\ call' = [wasTrained |-> trained,
                        fit |-> IF ~FitAttempted(s2) THEN "none"
                                ELSE IF fitRaises THEN "raised" ELSE "ok",
                        predict |-> IF ~PredictAttempted(s2, trained, fitRaises)
                                    THEN "none"
                                    ELSE IF predictRaises THEN "raised"
                                    ELSE "ok",
                        labels |-> labels,
                        pick |-> pick]
        /\ trained' = TrainedAfter(s2, trained, fitRaises)
        /\ stages' = [extension |-> Categories(s1), subject |-> Categories(s2),
                      cluster |-> Categories(s3), heuristics |-> Categories(s4)]

\* categorize_files(files_info), on the list scan_directory returned.  fit
\* and predict of the sklearn pipeline are the environment's: each may
\* raise, and predict may give any clusters.
CategorizeFiles ==
    /\ pc = "scanning"
    /\ pc' = "categorized"
    /\ given' = files
    /\ UNCHANGED <<search, threads>>
    /\ LET s1 == ExtensionStage(files)
           s2 == IdentifyAcademicDocuments(s1)
       IN  \E fitRaises \in FitRaisesChoices(s2) :
           \E predictRaises \in PredictRaisesChoices(s2, trained, fitRaises) :
           \E labels \in (IF PredictAttempted(s2, trained, fitRaises)
                             /\ ~predictRaises
                          THEN LabelChoices(s2) ELSE {<<>>}) :
               CategorizeTail(s1, s2, fitRaises, predictRaises, labels)

Next ==
    \/ StartScan
    \/ \E entry \in Entries : ScanFile(entry)
    \/ ScanPadding
    \/ CategorizeFiles

Spec == Init /\ [][Next]_vars

(***************************************************************************)
(* categorize_files on records that arrive with a category, and on its own *)
(* return value.                                                           *)
(***************************************************************************)
\* The files of the directories, beside the padding.
RerunHeads ==
    {<<Entry("/d", "calculus_1.pdf", 500, 2),
       Entry("/project", "calculus_3.pdf", 500, 3)>>,
     <<Entry("/d", "readme", 100, 3), Entry("/d", "cache.xyz", 100, 2)>>,
     <<Entry("/d", "config.ini", 100, 1),
       Entry("/d", "technical_temp.pdf", 500, 1)>>}

\* The categories the first files of a list may arrive with.
InputCategories == {None, "Other", "Documents", "Mathematics", "Group 1"}

\* The list with the categories cats on its first records.
GiveCategories(fs, cats) ==
    List([i \in DOMAIN fs |->
            IF i \in DOMAIN cats THEN [fs[i] EXCEPT !.category = cats[i]]
            ELSE fs[i]])

\* The state when categorize_files is about to be called on such a list.
RerunInit ==
    /\ pc = "scanning"
    /\ files \in {GiveCategories(ScanDirectory(head \o pad), List(cats)) :
                    head \in RerunHeads, pad \in {<<>>, Padding},
                    cats \in [1..2 -> InputCategories]}
    /\ given = <<>>
    /\ trained \in BOOLEAN
    /\ stages = NoStages
    /\ call = NoCall
    /\ search = NoSearch
    /\ threads = NoThreads

\* categorize_files(files_info) on the list the last call returned, in the
\* same process: fit and predict do on the same names what they did
\* (random_state is fixed), and max(set(...)) of line 302 takes what it
\* took on the same categories.
CategorizeAgain ==
    /\ pc = "categorized"
    /\ files # <<>>
    /\ given' = files
    /\ LET s1 == ExtensionStage(files)
           s2 == IdentifyAcademicDocuments(s1)
           fitRaises == call.fit = "raised"
           s3 == ClusterStage(s2, trained, fitRaises, call.predict = "raised",
                              call.labels)
           s4 == ApplyCategorizationHeuristics(s3)
       IN  /\ files' = GroupSimilarFiles(s4, call.pick)
           /\ trained' = TrainedAfter(s2, trained, fitRaises)
           /\ stages' = [extension |-> Categories(s1),
                         subject |-> Categories(s2),
                         cluster |-> Categories(s3),
                         heuristics |-> Categories(s4)]
           /\ call' = [call EXCEPT !.wasTrained = trained]
    /\ UNCHANGED <<pc, search, threads>>

NextRerun == CategorizeFiles \/ CategorizeAgain

SpecRerun == RerunInit /\ [][NextRerun]_vars


(***************************************************************************)
(* categorize_files on one-file directories whose file matches several     *)
(* rules, by a FileClassifier that is new or was trained by an earlier     *)
(* call.                                                                    *)
(***************************************************************************)
RuleNames ==
    {"config.tmp", "config.db", "cache.sqlite.bak", "tmp_font.ttf",
     "data.mdb~", "notes.txt", "readme", "technical_temp.pdf", "App.CFG"}

RuleDirs == {"/d", "/project", "/Workspace"}

RuleEntries == {Entry(dir, name, 100, 1) : dir \in RuleDirs, name \in RuleNames}

RulesInit ==
    /\ pc = "scanning"
    /\ files \in {ScanDirectory(<<entry>>) : entry \in RuleEntries}
    /\ given = <<>>
    /\ trained \in BOOLEAN
    /\ stages = NoStages
    /\ call = NoCall
    /\ search = NoSearch
    /\ threads = NoThreads

NextRules == CategorizeFiles

SpecRules == RulesInit /\ [][NextRules]_vars

(***************************************************************************)
(* categorize_files on one-file directories whose file is named after a    *)
(* keyword of the subject blocks of _apply_categorization_heuristics.      *)
(***************************************************************************)
\* Lines 324-364 : the keywords of the five subject blocks.
BlockKeywords ==
    {"drawing", "projection", "mechanical", "engineering", "cad",
     "technical", "blueprint", "schematic", "orthographic", "isometric",
     "math", "calculus", "algebra", "equation", "geometry", "theorem",
     "formula", "statistical",
     "physics", "force", "energy", "mechanics", "dynamics", "kinematics",
     "chemistry", "molecule", "chemical", "compound", "reaction", "organic",
     "algorithm", "data structure", "programming", "database", "software",
     "network"}

BlockNames ==
    {keyword \o ".txt" : keyword \in BlockKeywords}
    \cup {"technical_temp.pdf", "Technical Report.bak.txt", "notes.txt",
          "drawing.png"}

BlockDirs == {"/d", "/project", "/design"}

BlockEntries ==
    {Entry(dir, name, 100, 1) : dir \in BlockDirs, name \in BlockNames}

BlocksInit ==
    /\ pc = "scanning"
    /\ files \in {ScanDirectory(<<entry>>) : entry \in BlockEntries}
    /\ given = <<>>
    /\ trained \in BOOLEAN
    /\ stages = NoStages
    /\ call = NoCall
    /\ search = NoSearch
    /\ threads = NoThreads

NextBlocks == CategorizeFiles

SpecBlocks == BlocksInit /\ [][NextBlocks]_vars

(***************************************************************************)
(* FileScanner.search_files (file_scanner.py lines 172-304).                *)
(***************************************************************************)
\* The files a searched directory may hold, in the order os.walk gives them.
SearchEntries ==
    << Entry("/Reports", "Summary.pdf", 1000, 3),
       Entry("/d", "report.txt", 100, 1),
       Entry("/d", "report_final.txt", 500, 2),
       Entry("/d", "annual_report.txt", 2000, 3),
       Entry("/d", "Budget Report 2024.xlsx", 500, 2) >>

\* The queries of the requests.
Queries == {"", "report", "documents", "budget report 2024"}

\* Lower, tabulated for the names and paths of the searched files and for
\* the queries.
SearchStrings ==
    {SearchEntries[i].name : i \in DOMAIN SearchEntries}
    \cup {GetFileInfo(SearchEntries[i]).path : i \in DOMAIN SearchEntries}
    \cup Queries

LowerTable == [s \in SearchStrings |-> Lower(s)] @@ <<>>

LowerOf(s) == IF s \in DOMAIN LowerTable THEN LowerTable[s] ELSE Lower(s)

\* A key the request leaves out.
Absent == [type |-> "absent"]

\* Python truth of a JSON value: None, 0, "", [] and {} are false.
Truthy(v) ==
    CASE v.type = "null" -> FALSE
      [] v.type = "number" -> v.num # 0
      [] v.type = "string" -> Len(v.str) > 0
      [] v.type = "list" -> Len(v.items) > 0
      [] v.type = "object" -> DOMAIN v.fields # {}
      [] OTHER -> FALSE

\* x in v, for a list v.
InList(x, v) == \E i \in DOMAIN v.items : v.items[i] = x

\* lines 184-185 : if filters is None: filters = {}
FiltersDict(filters) ==
    IF filters.type = "null" THEN EmptyDict ELSE filters.fields

\* 'key' in filters and filters['key']
Supplied(fd, key) == key \in DOMAIN fd /\ Truthy(fd[key])

\* 'key' in filters and filters['key'] is not None
NotNone(fd, key) == key \in DOMAIN fd /\ fd[key].type # "null"

\* The filters as alternatives of one another: a record that passes any
\* one supplied filter is kept.
PassesFiltersAny(file_info, fd) ==
    \/ Supplied(fd, "extensions")
          /\ InList(file_info.extension, fd["extensions"])
    \/ Supplied(fd, "categories")
          /\ InList(file_info.category, fd["categories"])
    \/ NotNone(fd, "min_size")
          /\ ~(file_info.size_bytes < fd["min_size"].num)
    \/ NotNone(fd, "max_size")
          /\ ~(file_info.size_bytes > fd["max_size"].num)
    \/ NotNone(fd, "modified_after")
          /\ ~(file_info.modified < fd["modified_after"].num)
    \/ NotNone(fd, "modified_before")
          /\ ~(file_info.modified > fd["modified_before"].num)

\* lines 191-213 : the record reaches line 216 when no filter hits its
\* `continue`.
PassesFilters(file_info, fd) ==
    /\ Supplied(fd, "extensions")
          => InList(file_info.extension, fd["extensions"])
    /\ Supplied(fd, "categories")
          => InList(file_info.category, fd["categories"])
    /\ NotNone(fd, "min_size")
          => ~(file_info.size_bytes < fd["min_size"].num)
    /\ NotNone(fd, "max_size")
          => ~(file_info.size_bytes > fd["max_size"].num)
    /\ NotNone(fd, "modified_after")
          => ~(file_info.modified < fd["modified_after"].num)
    /\ NotNone(fd, "modified_before")
          => ~(file_info.modified > fd["modified_before"].num)

\* filtered_files built by inserting each passing record at the front.
RECURSIVE FilteredFilesNewestFirst(_, _)
FilteredFilesNewestFirst(files_data, fd) ==
    IF files_data = <<>> THEN <<>>
    ELSE FilteredFilesNewestFirst(Tail(files_data), fd)
         \o (IF PassesFilters(Head(files_data), fd)
             THEN <<Head(files_data)>> ELSE <<>>)

\* lines 188-216 : filtered_files, in the order of files_data.
RECURSIVE FilteredFiles(_, _)
FilteredFiles(files_data, fd) ==
    IF files_data = <<>> THEN <<>>
    ELSE (IF PassesFilters(Head(files_data), fd)
          THEN <<Head(files_data)>> ELSE <<>>)
         \o FilteredFiles(Tail(files_data), fd)

\* len(query.split()) : the number of maximal runs of non-blank characters.
RECURSIVE TokenCount(_)
TokenCount(query) ==
    IF Len(query) = 0 THEN 0
    ELSE IF SubSeq(query, 1, 1) = " " THEN TokenCount(Tail(query))
    ELSE IF Len(query) = 1 \/ SubSeq(query, 2, 2) = " " THEN
         1 + TokenCount(Tail(query))
    ELSE TokenCount(Tail(query))

\* lines 244-248 : the filename is the query or starts with it.
IsExactMatch(file_info, query_lower) ==
    \/ query_lower = LowerOf(file_info.name)
    \/ StartsWith(LowerOf(file_info.name), query_lower)

\* lines 250, 287-288, 300-301 : the query is in the filename or the path.
IsSubstringMatch(file_info, query_lower) ==
    \/ Contains(LowerOf(file_info.name), query_lower)
    \/ Contains(LowerOf(file_info.path), query_lower)

\* The records of fs, in order, whose path is in keep.
RECURSIVE Select(_, _)
Select(fs, keep) ==
    IF fs = <<>> THEN <<>>
    ELSE (IF Head(fs).path \in keep THEN <<Head(fs)>> ELSE <<>>)
         \o Select(Tail(fs), keep)

\* lines 242-248 : exact_matches
ExactMatches(fs, query_lower) ==
    Select(fs, {fs[i].path : i \in {j \in DOMAIN fs :
                    IsExactMatch(fs[j], query_lower)}})

\* lines 242-251 : partial_matches
PartialMatches(fs, query_lower) ==
    Select(fs, {fs[i].path : i \in {j \in DOMAIN fs :
                    /\ ~IsExactMatch(fs[j], query_lower)
                    /\ IsSubstringMatch(fs[j], query_lower)}})

\* The basic search without lowering the filename and the path.
BasicSearchCaseSensitive(fs, query) ==
    Select(fs, {fs[i].path : i \in {j \in DOMAIN fs :
                    \/ Contains(fs[j].name, LowerOf(query))
                    \/ Contains(fs[j].path, LowerOf(query))}})

\* lines 285-289, 297-302 : the basic search of the two fallbacks.
BasicSearch(fs, query) ==
    Select(fs, {fs[i].path : i \in {j \in DOMAIN fs :
                    IsSubstringMatch(fs[j], LowerOf(query))}})

\* line 274 : similarity_threshold = 0.01, in thousandths.
SimilarityThreshold == 10

\* The cosine similarities the model lets a document have, in thousandths:
\* just under the threshold, the threshold, and a high one.
ScoreSample == {SimilarityThreshold - 1, SimilarityThreshold, 500}

\* The orders of 1..n.
Orders(n) ==
    {r \in [1..n -> 1..n] : \A i, j \in 1..n : i # j => r[i] # r[j]}

\* line 271 : np.argsort(-similarities) gives an order of the documents in
\* which the scores never go up; the default sort kind promises nothing
\* about the order of equal scores.
RankedIndices(similarities) ==
    LET n == Len(similarities)
    IN  {List(r) : r \in {o \in Orders(n) :
            \A i \in 1..n : \A j \in 1..n :
                i < j => similarities[o[i]] >= similarities[o[j]]}}

NoVector == [raises |-> FALSE, similarities |-> <<>>, ranked |-> <<>>]

\* What lines 262-271 can do on n documents: raise (fit_transform raises
\* on an empty vocabulary), or give each document a similarity and an order.
VectorOutcomes(n) ==
    {[raises |-> TRUE, similarities |-> <<>>, ranked |-> <<>>]}
    \cup UNION {{[raises |-> FALSE, similarities |-> List(s), ranked |-> r] :
                    r \in RankedIndices(List(s))} :
                s \in [1..n -> ScoreSample]}

\* lines 275-280 : the documents at or above the threshold, in rank order.
RECURSIVE AboveThreshold(_, _, _)
AboveThreshold(fs, similarities, ranked) ==
    IF ranked = <<>> THEN <<>>
    ELSE (IF similarities[Head(ranked)] >= SimilarityThreshold
          THEN <<fs[Head(ranked)]>> ELSE <<>>)
         \o AboveThreshold(fs, similarities, Tail(ranked))

\* lines 237-257 : whether the single-token branch returns.
KeywordReturns(fs, query) ==
    /\ TokenCount(query) = 1
    /\ \/ ExactMatches(fs, LowerOf(query)) # <<>>
       \/ PartialMatches(fs, LowerOf(query)) # <<>>

\* One list of the matches, in the order of the filtered files.
KeywordResultInOrder(fs, query) ==
    Select(fs, {fs[i].path : i \in {j \in DOMAIN fs :
                    IsSubstringMatch(fs[j], LowerOf(query))}})

\* Faulty variant of KeywordResult : the partial matches are collected with
\* an if of their own, so a name that starts with the query is in both lists.
KeywordResultExactTwice(fs, query) ==
    IF ExactMatches(fs, LowerOf(query)) # <<>>
    THEN ExactMatches(fs, LowerOf(query)) \o BasicSearch(fs, query)
    ELSE PartialMatches(fs, LowerOf(query))

\* lines 254-257 : what the single-token branch returns.
KeywordResult(fs, query) ==
    IF ExactMatches(fs, LowerOf(query)) # <<>>
    THEN ExactMatches(fs, LowerOf(query)) \o PartialMatches(fs, LowerOf(query))
    ELSE PartialMatches(fs, LowerOf(query))

\* Whether the call reaches the try of line 259.
VectorAttempted(files_data, query, filters) ==
    LET fs == FilteredFiles(files_data, FiltersDict(filters))
    IN  Len(query) > 0 /\ fs # <<>> /\ ~KeywordReturns(fs, query)

\* search_files(files_data, query, filters) : the list returned and the
\* return statement that returned it.
SearchFiles(files_data, query, filters, vector) ==
    LET fs == FilteredFiles(files_data, FiltersDict(filters))
        ranked == AboveThreshold(fs, vector.similarities, vector.ranked)
    IN  IF Len(query) = 0 \/ fs = <<>>
        THEN [result |-> fs, tier |-> "filter"]                 \* line 220
        ELSE IF KeywordReturns(fs, query)
        THEN [result |-> KeywordResult(fs, query),
              tier |-> "keyword"]                               \* 255, 257
        ELSE IF vector.raises
        THEN [result |-> BasicSearch(fs, query),
              tier |-> "except"]                                \* line 304
        ELSE IF ranked = <<>>
        THEN [result |-> BasicSearch(fs, query),
              tier |-> "fallback"]                              \* line 291
        ELSE [result |-> ranked, tier |-> "vector"]             \* line 291

(***************************************************************************)
(* POST /api/search (app.py lines 102-142) on the results of a scan.       *)
(***************************************************************************)
\* The most files of a searched directory.
MaxSearchFiles == 3

\* The entries of SearchEntries at the indices of S, in order.
RECURSIVE EntriesAt(_, _)
EntriesAt(S, i) ==
    IF i > Len(SearchEntries) THEN <<>>
    ELSE (IF i \in S THEN <<SearchEntries[i]>> ELSE <<>>) \o EntriesAt(S, i + 1)

SearchListings ==
    {EntriesAt(S, 1) : S \in {T \in SUBSET DOMAIN SearchEntries :
                                Cardinality(T) <= MaxSearchFiles}}

\* VectorOutcomes, tabulated for the lengths a filtered list can have.
VectorOutcomesTable ==
    [n \in 0..MaxSearchFiles |-> VectorOutcomes(n)] @@ <<>>

\* The state when scan_directory has returned the list of a searched
\* directory to the first POST /api/scan.
SearchInit ==
    /\ pc = "scanning"
    /\ files \in {ScanDirectory(listing) : listing \in SearchListings}
    /\ given = <<>>
    /\ trained = FALSE
    /\ stages = NoStages
    /\ call = NoCall
    /\ search = NoSearch
    /\ threads = NoThreads

\* What a request may give each key of its filters.
FilterOptions ==
    [extensions : {Absent, JsonList(<<>>), JsonList(<<"txt">>)},
     categories : {Absent, JsonList(<<"Documents">>)},
     min_size : {Absent, JsonNull, JsonNumber(200)},
     max_size : {Absent, JsonNumber(1000)},
     modified_after : {Absent, JsonNumber(2)},
     modified_before : {Absent, JsonNumber(2)},
     owner : {Absent, JsonString("me")}]

\* The filters object with the keys the request gives.
FiltersOf(options) ==
    JsonObject([k \in {key \in DOMAIN options : options[key] # Absent}
                    |-> options[k]] @@ EmptyDict)

\* The filters of the requests: an object, or null.
FilterChoices == {FiltersOf(options) : options \in FilterOptions} \cup {JsonNull}

\* POST /api/search : the handler answers 400 to a request with neither
\* query nor filters and to one before any scan result, and otherwise
\* answers with what search_files returns on session['last_scan_results'].
ApiSearch(query, filters) ==
    /\ pc = "categorized"
    /\ search.pc = "writing"
    /\ IF (Len(query) = 0 /\ ~Truthy(filters)) \/ files = <<>>
       THEN search' = [pc |-> "rejected", query |-> query,
                       filters |-> filters, result |-> <<>>,
                       tier |-> "none", vector |-> NoVector]
       ELSE \E vector \in (IF VectorAttempted(files, query, filters)
                           THEN VectorOutcomesTable[Len(FilteredFiles(files,
                                                    FiltersDict(filters)))]
                           ELSE {NoVector}) :
               LET found == SearchFiles(files, query, filters, vector)
               IN  search' = [pc |-> "answered", query |-> query,
                              filters |-> filters, result |-> found.result,
                              tier |-> found.tier, vector |-> vector]
    /\ UNCHANGED <<pc, files, given, trained, stages, call, threads>>

\* The client writes its next request.
NewRequest ==
    /\ search.pc \in {"answered", "rejected"}
    /\ search' = NoSearch
    /\ UNCHANGED <<pc, files, given, trained, stages, call, threads>>

NextSearch ==
    \/ CategorizeFiles
    \/ \E query \in Queries : \E filters \in FilterChoices :
            ApiSearch(query, filters)
    \/ NewRequest

SpecSearch == SearchInit /\ [][NextSearch]_vars

(***************************************************************************)
(* Two search_files calls at the same time on the shared file_scanner      *)
(* (app.py line 30, line 127) : the handler threads of two requests.       *)
(***************************************************************************)
\* lines 223-234 : the document of each filtered file.
FileDocuments(fs) ==
    List([i \in DOMAIN fs |->
            fs[i].name \o " " \o fs[i].path
            \o (IF fs[i].category # None /\ fs[i].category # ""
                THEN " " \o fs[i].category ELSE "")
            \o (IF fs[i].extension # ""
                THEN " extension:" \o fs[i].extension ELSE "")])

\* The requests the threads serve.
ThreadRequests ==
    <<[query |-> "budget report 2024", filters |-> JsonNull],
      [query |-> "documents",
       filters |-> JsonObject([k \in {"extensions"} |-> JsonList(<<"txt">>)])]>>

\* The request of thread t.
ThreadRequest(t) == ThreadRequests[((t - 1) % Len(ThreadRequests)) + 1]

\* What lines 262-271 give a call that runs alone on n documents, in the
\* model: fit_transform raises, or every document is similar to the query
\* and ranked in order.
AloneOutcomes(n) ==
    {o \in VectorOutcomesTable[n] :
        \/ o.raises
        \/ \A i \in 1..n : o.similarities[i] = 500 /\ o.ranked[i] = i}

\* The filtered files of a thread's call (lines 188-216).
ThreadFiltered(t) ==
    FilteredFiles(files, FiltersDict(threads.at[t].filters))

\* lines 184-257 : the call filters and tries the single-token branch,
\* none of which touches the instance; it returns from there or goes on
\* to line 262.
SearchCall(t) ==
    /\ pc = "categorized"
    /\ files # <<>>
    /\ threads.at[t].pc = "idle"
    /\ LET query == ThreadRequest(t).query
           filters == ThreadRequest(t).filters
           fs == FilteredFiles(files, FiltersDict(filters))
       IN  IF VectorAttempted(files, query, filters)
           THEN \E alone \in AloneOutcomes(Len(fs)) :
                   threads' = [threads EXCEPT !.at[t] =
                       [NoThread EXCEPT !.pc = "fit", !.query = query,
                                        !.filters = filters, !.alone = alone]]
           ELSE LET found == SearchFiles(files, query, filters, NoVector)
                IN  threads' = [threads EXCEPT !.at[t] =
                       [NoThread EXCEPT !.pc = "returned", !.query = query,
                                        !.filters = filters,
                                        !.result = found.result,
                                        !.tier = found.tier]]
    /\ UNCHANGED <<pc, files, given, trained, stages, call, search>>

\* line 262 : self.vectorizer.fit_transform(file_documents) refits the
\* vectorizer of the instance on the documents of this call, or raises
\* before it has set the new vocabulary, and then the except of lines
\* 293-304 answers.
FitTransform(t) ==
    /\ threads.at[t].pc = "fit"
    /\ LET at == threads.at[t]
           fs == ThreadFiltered(t)
       IN  IF at.alone.raises
           THEN threads' = [threads EXCEPT !.at[t] =
                   [at EXCEPT !.pc = "returned",
                              !.result = BasicSearch(fs, at.query),
                              !.tier = "except"]]
           ELSE threads' = [threads EXCEPT
                   !.vectorizer = [fitted |-> TRUE,
                                   documents |-> FileDocuments(fs)],
                   !.at[t].pc = "transform"]
    /\ UNCHANGED <<pc, files, given, trained, stages, call, search>>

\* line 265 : self.vectorizer.transform([query]) uses the vocabulary the
\* vectorizer of the instance has now.
Transform(t) ==
    /\ threads.at[t].pc = "transform"
    /\ threads' = [threads EXCEPT
            !.at[t].pc = "rank",
            !.at[t].fitted_on = threads.vectorizer.documents]
    /\ UNCHANGED <<pc, files, given, trained, stages, call, search>>

\* lines 268-304 : cosine_similarity of the query vector and the matrix of
\* this call.  With the vocabulary of its own documents the call gets what
\* it gets alone; with another vocabulary the vector has other columns,
\* and cosine_similarity raises or gives other scores.
Rank(t) ==
    /\ threads.at[t].pc = "rank"
    /\ LET at == threads.at[t]
           fs == ThreadFiltered(t)
       IN  \E vector \in (IF at.fitted_on = FileDocuments(fs)
                          THEN {at.alone}
                          ELSE VectorOutcomesTable[Len(fs)]) :
               LET found == SearchFiles(files, at.query, at.filters, vector)
               IN  threads' = [threads EXCEPT !.at[t] =
                       [at EXCEPT !.pc = "returned",
                                  !.result = found.result,
                                  !.tier = found.tier]]
    /\ UNCHANGED <<pc, files, given, trained, stages, call, search>>

NextThreads ==
    \/ CategorizeFiles
    \/ \E t \in Threads : SearchCall(t)
    \/ \E t \in Threads : FitTransform(t)
    \/ \E t \in Threads : Transform(t)
    \/ \E t \in Threads : Rank(t)

SpecThreads == SearchInit /\ [][NextThreads]_vars

(***************************************************************************)
(* Properties of categorize_files.                                          *)
(***************************************************************************)
\* categorize_files has returned.
Done == pc = "categorized"

IsGroupLabel(c) == c \in {GroupLabel(k) : k \in 0..(n_clusters - 1)}

GenericLabels ==
    {"Configuration", "Database", "Backup", "Temporary", "Project", "Fonts"}

\* C1 : after categorize_files every record has a category that is a
\* non-empty string, none keeps the None it arrived with, whatever the size
\* of the corpus and however fit and predict ended.
C1_EveryCategorySet ==
    Done => \A i \in DOMAIN files :
                /\ files[i].category # None
                /\ Len(files[i].category) > 0

\* A call on 10 or more records that arrived unset, one of them left to the
\* cluster stage, whose fit raised.
C1_Witness ==
    /\ Done
    /\ Len(files) >= MinCorpusSize
    /\ \A i \in DOMAIN given : given[i].category = None
    /\ call.fit = "raised"
    /\ \E i \in DOMAIN files : files[i].category = "Other"

\* C2 : the category the extension stage writes is the table entry of the
\* record's lowercased extension, 'Other' when the table has none (the empty
\* extension included), whatever the other records and the earlier calls.
C2_ExtensionStagePure ==
    Done =>
        /\ Len(stages.extension) = Len(given)
        /\ \A i \in DOMAIN given :
            LET ext == Lower(given[i].extension)
            IN  /\ ext \in DOMAIN extension_categories
                        => stages.extension[i] = extension_categories[ext]
                /\ ext \notin DOMAIN extension_categories
                        => stages.extension[i] = "Other"

\* A call after one that trained the model, on records of a table extension,
\* of an unknown extension and of no extension.
C2_Witness ==
    /\ Done
    /\ call.wasTrained
    /\ \E i, j, k \in DOMAIN given :
        /\ given[i].extension = "pdf" /\ stages.extension[i] = "Documents"
        /\ given[j].extension = "xyz" /\ stages.extension[j] = "Other"
        /\ given[k].extension = "" /\ stages.extension[k] = "Other"

\* Whether the name or the path of a record matches a generic rule
\* (configuration, database, backup, temporary, project, fonts).
MatchesGenericRule(name, path) ==
    \/ IsConfiguration(Lower(name)) \/ IsDatabase(Lower(name))
    \/ IsBackup(Lower(name)) \/ IsTemporary(Lower(name))
    \/ IsProject(Lower(path)) \/ IsFonts(Lower(name))

\* The records a scan can produce that match a generic rule.
GenericMatches ==
    {<<r.name, r.path>> : r \in {q \in ScannedRecords :
                                    MatchesGenericRule(q.name, q.path)}}

\* C3 : every record whose name or path matches a generic rule is returned
\* with the label of a generic rule, whatever the other records are.
C3_GenericRulesWin ==
    Done => \A i \in DOMAIN files :
                <<files[i].name, files[i].path>> \in GenericMatches
                    => files[i].category \in GenericLabels

C5_NoClusterBelowTen ==
    (Done /\ Len(files) < MinCorpusSize) =>
        \A i \in DOMAIN files :
            /\ stages.subject[i] = "Other" => stages.cluster[i] = "Other"
            /\ ~IsGroupLabel(files[i].category)

\* The categories a new FileClassifier (trained = FALSE) can return for the
\* records `given`, with fit and predict ending as they did in the call and
\* predict giving the same clusters.
FreshResults ==
    LET s1 == ExtensionStage(given)
        s2 == IdentifyAcademicDocuments(s1)
        s3 == ClusterStage(s2, FALSE, call.fit = "raised",
                           call.predict = "raised", call.labels)
        s4 == ApplyCategorizationHeuristics(s3)
    IN  {Categories(GroupSimilarFiles(s4, pick)) : pick \in MostCommonChoices(s4)}

\* C6 : the categories a call returns are those the same call returns as
\* the first call on a new FileClassifier, whatever calls came before.
C6_StatelessPerCall == Done => Categories(files) \in FreshResults

\* The positions in academic_patterns of the subjects with a keyword in the
\* lowercased name or path.
SubjectsMatching(name, path) ==
    {k \in DOMAIN academic_patterns :
        \E j \in DOMAIN academic_patterns[k].keywords :
            \/ Contains(Lower(name), academic_patterns[k].keywords[j])
            \/ Contains(Lower(path), academic_patterns[k].keywords[j])}

SubjectsMatchingTable ==
    [k \in {<<r.name, r.path>> : r \in ScannedRecords} |->
        SubjectsMatching(k[1], k[2])] @@ <<>>

\* C7 : a record the extension stage left as Documents or Other, with
\* keywords of two or more subjects in its name or path, leaves
\* _identify_academic_documents with the last of these subjects in the
\* declared order.
C7_LastSubjectWins ==
    Done => \A i \in DOMAIN given :
                LET m == SubjectsMatchingTable[<<given[i].name, given[i].path>>]
                IN  (/\ stages.extension[i] \in {"Documents", "Other"}
                     /\ Cardinality(m) >= 2)
                        => \E k \in m :
                            /\ \A l \in m : l <= k
                            /\ stages.subject[i] = academic_patterns[k].subject

\* math_physics.pdf (Mathematics, then Physics) is Physics and database.db
\* (Chemistry by 'base', then Computer_Science) is Computer_Science after
\* _identify_academic_documents.
C7_Witness ==
    /\ Done
    /\ \E i, j \in DOMAIN given :
        /\ given[i].name = "math_physics.pdf"
        /\ SubjectsMatchingTable[<<given[i].name, given[i].path>>] = {2, 3}
        /\ stages.subject[i] = "Physics"
        /\ given[j].name = "database.db"
        /\ SubjectsMatchingTable[<<given[j].name, given[j].path>>] = {4, 5}
        /\ stages.subject[j] = "Computer_Science"

\* C8 : the list returned holds the records it was given, in the same order
\* and number, and no field but 'category' differs from what was given.
C8_SameListOnlyCategoryChanged ==
    Done =>
        /\ Len(files) = Len(given)
        /\ \A i \in DOMAIN given :
            /\ i \in DOMAIN files
            /\ [files[i] EXCEPT !.category = None] =
               [given[i] EXCEPT !.category = None]

\* A call on more than 10 records in which the cluster stage labelled one
\* and the consensus regrouping changed another.
C8_Witness ==
    /\ Done
    /\ Len(given) > MinCorpusSize
    /\ call.predict = "ok"
    /\ \E i, j \in DOMAIN files :
        /\ IsGroupLabel(files[i].category)
        /\ files[j].category # stages.heuristics[j]

\* C9 : _group_similar_files changes the category of a record only if its
\* base name is longer than 3 characters and another record of the list has
\* the same base name.
C9_UngroupedUntouched ==
    Done => \A i \in DOMAIN files :
                files[i].category # stages.heuristics[i] =>
                    /\ Len(BaseNameOf(files[i].name)) > 3
                    /\ \E j \in DOMAIN files :
                        /\ j # i
                        /\ BaseNameOf(files[j].name) = BaseNameOf(files[i].name)

\* calculus_1.pdf and calculus_3.pdf share a base name and the second is
\* moved from Project to Mathematics, random.pdf beside them keeps the
\* category it had.
C9_Witness ==
    /\ Done
    /\ \E i, j, k \in DOMAIN files :
        /\ files[i].name = "calculus_1.pdf" /\ files[i].category = "Mathematics"
        /\ files[j].name = "calculus_3.pdf"
        /\ stages.heuristics[j] = "Project" /\ files[j].category = "Mathematics"
        /\ files[k].name = "random.pdf"
        /\ files[k].category = stages.heuristics[k]


(***************************************************************************)
(* Properties of search_files.                                              *)
(***************************************************************************)
Answered == search.pc = "answered"

\* The value the request's filters give a key, Absent when filters is null
\* or has no such key.
FilterValue(key) ==
    IF search.filters.type # "object" THEN Absent
    ELSE IF key \notin DOMAIN search.filters.fields THEN Absent
    ELSE search.filters.fields[key]

\* The record is in the list the filter names, when that list is supplied
\* and not empty.
InSuppliedList(key, x) ==
    LET v == FilterValue(key)
    IN  (v.type = "list" /\ v.items # <<>>)
            => \E i \in DOMAIN v.items : v.items[i] = x

\* The number is at or above the bound the filter gives, when it gives one.
AtLeast(key, n) ==
    LET v == FilterValue(key) IN v.type = "number" => v.num <= n

\* The number is at or below the bound the filter gives, when it gives one.
AtMost(key, n) ==
    LET v == FilterValue(key) IN v.type = "number" => n <= v.num

\* The record meets every filter of the request.
MeetsEveryFilter(r) ==
    /\ InSuppliedList("extensions", r.extension)
    /\ InSuppliedList("categories", r.category)
    /\ AtLeast("min_size", r.size_bytes)
    /\ AtMost("max_size", r.size_bytes)
    /\ AtLeast("modified_after", r.modified)
    /\ AtMost("modified_before", r.modified)

\* The tiers whose result the filters and the query alone decide.
TextTiers == {"filter", "keyword", "except", "fallback"}

\* C10: every record search_files returns, whatever the query and the tier
\* that answered, is a record of files_data that meets all the supplied
\* filters at once -- extension in 'extensions' and category in
\* 'categories' when those are non-empty, min_size <= size_bytes <= max_size
\* and modified_after <= modified <= modified_before, bounds included -- and
\* nothing else constrains the result: in the tiers that do no scoring, a
\* record that meets them and whose name or path holds the query (or any
\* record, with no query) is returned, so an absent or null filter and an
\* unknown key drop nothing.
C10_FiltersAndCombined ==
    Answered =>
        /\ \A i \in DOMAIN search.result :
              /\ MeetsEveryFilter(search.result[i])
              /\ \E j \in DOMAIN files : files[j] = search.result[i]
        /\ search.tier \in TextTiers =>
              \A j \in DOMAIN files :
                  ( /\ MeetsEveryFilter(files[j])
                    /\ \/ search.query = ""
                       \/ IsSubstringMatch(files[j], LowerOf(search.query)) )
                  => \E i \in DOMAIN search.result :
                          search.result[i] = files[j]

\* Files of 100, 500 and 2000 bytes searched with a query and the filters
\* min_size=200, max_size=1000: only the 500-byte file is returned.
C10_Witness ==
    /\ Answered
    /\ search.query = "report"
    /\ List([i \in DOMAIN files |-> files[i].size_bytes]) = <<100, 500, 2000>>
    /\ search.filters.type = "object"
    /\ DOMAIN search.filters.fields = {"min_size", "max_size"}
    /\ FilterValue("min_size") = JsonNumber(200)
    /\ FilterValue("max_size") = JsonNumber(1000)
    /\ Len(search.result) = 1
    /\ search.result[1].size_bytes = 500

\* The records of files_data that meet every filter of the request, in the
\* order of files_data.
MeetingFilters ==
    Select(files, {files[j].path : j \in {k \in DOMAIN files :
                                            MeetsEveryFilter(files[k])}})

\* C11: with an empty query search_files returns exactly the records of
\* files_data that pass every supplied filter, each once and in their
\* original relative order, from the return of line 220: no text matching
\* and no vectorization takes place.
C11_NoQueryFilteredInOrder ==
    (Answered /\ search.query = "") =>
        /\ search.result = MeetingFilters
        /\ search.tier = "filter"

\* An empty query whose filters keep two or more records of the three
\* scanned and drop another.
C11_Witness ==
    /\ Answered
    /\ search.query = ""
    /\ search.tier = "filter"
    /\ Len(files) = MaxSearchFiles
    /\ Len(search.result) >= 2
    /\ Len(search.result) < Len(files)
    /\ search.result = MeetingFilters

\* The request's query, lowercased.
QueryLower == LowerOf(search.query)

\* The filename is the query or starts with it, whatever the case.
NameStartsWithQuery(r) ==
    /\ Len(QueryLower) <= Len(r.name)
    /\ SubSeq(LowerOf(r.name), 1, Len(QueryLower)) = QueryLower

\* The query is part of the filename or of the path, whatever the case.
QueryInNameOrPath(r) ==
    \E s \in {LowerOf(r.name), LowerOf(r.path)} :
        \E i \in 1..Len(s) :
            /\ i + Len(QueryLower) - 1 <= Len(s)
            /\ SubSeq(s, i, i + Len(QueryLower) - 1) = QueryLower

\* The place of a record in files_data.
PlaceOf(r) == CHOOSE j \in DOMAIN files : files[j] = r

\* The names of the records of a list.
Names(fs) == List([i \in DOMAIN fs |-> fs[i].name])

\* The records that pass the filters and hold the query in name or path.
Matching ==
    {MeetingFilters[j] : j \in {k \in DOMAIN MeetingFilters :
                                    QueryInNameOrPath(MeetingFilters[k])}}

\* C12: a single-token query that a filtered record matches is answered by
\* the single-token branch with every matching record once, the exact
\* matches (filename equal to or starting with the query, whatever the
\* case) before the partial ones (query part of the filename or of the
\* path), each group in the order of files_data; report.txt,
\* report_final.txt, annual_report.txt searched for 'report' come back in
\* that order.
C12_ExactThenPartial ==
    (Answered /\ TokenCount(search.query) = 1 /\ Matching # {}) =>
        /\ search.tier = "keyword"
        /\ Len(search.result) = Cardinality(Matching)
        /\ {search.result[i] : i \in DOMAIN search.result} = Matching
        /\ \A i, j \in DOMAIN search.result :
              i < j =>
                /\ NameStartsWithQuery(search.result[j])
                        => NameStartsWithQuery(search.result[i])
                /\ (NameStartsWithQuery(search.result[i])
                        <=> NameStartsWithQuery(search.result[j]))
                        => PlaceOf(search.result[i]) < PlaceOf(search.result[j])
        /\ ( /\ Names(files) =
                  <<"report.txt", "report_final.txt", "annual_report.txt">>
             /\ search.query = "report"
             /\ MeetingFilters = files )
              => Names(search.result) =
                  <<"report.txt", "report_final.txt", "annual_report.txt">>

\* Summary.pdf, a partial match by its path /Reports, is scanned before
\* report.txt and annual_report.txt and returned between them: the exact
\* match first, then the partial ones in scan order.
C12_Witness ==
    /\ Answered
    /\ search.query = "report"
    /\ Names(files) = <<"Summary.pdf", "report.txt", "annual_report.txt">>
    /\ Names(search.result) = <<"report.txt", "Summary.pdf", "annual_report.txt">>

\* The tiers that ran the vectorizer: the return of the scored records, of
\* the basic search after no score reached the threshold, and of the basic
\* search after an exception.
VectorTiers == {"vector", "fallback", "except"}

\* C13: a single-token query that no filtered record matches exactly or
\* partially is answered with the empty list and without the vectorizer
\* being tried, even when the token is in a record's category or extension
\* tag.
C13_SingleTokenNoVector ==
    (Answered /\ TokenCount(search.query) = 1 /\ Matching = {}) =>
        /\ search.result = <<>>
        /\ search.tier \notin VectorTiers

\* The words of a string: its maximal runs of characters other than blanks.
RECURSIVE Words(_, _)
Words(s, word) ==
    IF Len(s) = 0 THEN (IF word = "" THEN {} ELSE {word})
    ELSE IF SubSeq(s, 1, 1) = " "
         THEN (IF word = "" THEN {} ELSE {word}) \cup Words(Tail(s), "")
         ELSE Words(Tail(s), word \o SubSeq(s, 1, 1))

\* The word is part of the record's filename or path, whatever the case.
WordInNameOrPath(word, r) ==
    Contains(LowerOf(r.name), word) \/ Contains(LowerOf(r.path), word)

\* C14: when the scoring of a query of several words raises or leaves no
\* record at 0.01 or more, search_files returns every filtered record whose
\* name or path holds at least one word of the query, whatever the case:
\* for 'budget report 2024' the records with 'budget' or with 'report', and not
\* only those that hold the whole query.
C14_FallbackPerToken ==
    (Answered /\ TokenCount(search.query) >= 2
              /\ search.tier \in {"fallback", "except"}) =>
        \A j \in DOMAIN MeetingFilters :
            (\E word \in Words(QueryLower, "") :
                    WordInNameOrPath(word, MeetingFilters[j]))
                => \E i \in DOMAIN search.result :
                        search.result[i] = MeetingFilters[j]

\* C15: when fitting the vectorizer, transforming the query or computing the
\* similarity raises, search_files still returns, and what it returns is
\* the basic search over the filtered records: those whose lowercased name
\* or path holds the lowercased query, in the order of files_data.
C15_ExceptionDegrades ==
    (Answered /\ search.tier = "except") =>
        /\ {search.result[i] : i \in DOMAIN search.result} = Matching
        /\ Len(search.result) = Cardinality(Matching)
        /\ \A i, j \in DOMAIN search.result :
              i < j => PlaceOf(search.result[i]) < PlaceOf(search.result[j])

\* The vectorizer raised on 'budget report 2024' over filtered records of
\* which one, Budget Report 2024.xlsx, holds the query: it alone is returned.
C15_Witness ==
    /\ Answered
    /\ search.tier = "except"
    /\ search.query = "budget report 2024"
    /\ Len(MeetingFilters) >= 2
    /\ Names(search.result) = <<"Budget Report 2024.xlsx">>

(***************************************************************************)
(* Properties of the heuristic pass and of the cluster stage.               *)
(***************************************************************************)
\* C16: the heuristic pass evaluates the generic rules for every record,
\* whatever category it enters the pass with (Documents included): a record
\* whose name or path matches a generic rule leaves the pass with the label
\* of a generic rule, and no earlier branch of the pass lets it skip them.
C16_GenericRulesForEveryRecord ==
    Done => \A i \in DOMAIN given :
                <<given[i].name, given[i].path>> \in GenericMatches
                    => stages.heuristics[i] \in GenericLabels

\* The labels of the generic rules, in the order the pass checks them.
GenericOrder ==
    <<"Configuration", "Database", "Backup", "Temporary", "Project", "Fonts">>

\* The places in GenericOrder of the rules a record matches.
GenericRulesMatched(r) ==
    LET name == Lower(r.name)
        path == Lower(r.path)
    IN  {k \in DOMAIN GenericOrder :
            \/ k = 1 /\ IsConfiguration(name)
            \/ k = 2 /\ IsDatabase(name)
            \/ k = 3 /\ IsBackup(name)
            \/ k = 4 /\ IsTemporary(name)
            \/ k = 5 /\ IsProject(path)
            \/ k = 6 /\ IsFonts(name)}

\* The record enters the pass as Documents with a subject keyword in its
\* name: a subject block takes it and ends its turn.
TakenBySubjectBlock(r, cat) ==
    LET name == Lower(r.name)
    IN  /\ cat = "Documents"
        /\ \/ EngineeringDrawingName(name) \/ MathematicsName(name)
           \/ PhysicsName(name) \/ ChemistryName(name)
           \/ ComputerScienceName(name)

\* C17: a record that reaches the generic rules and matches several of them
\* leaves the heuristic pass with the label of the last one it matches in
\* the order configuration, database, backup, temporary, project, fonts;
\* one that matches a single rule leaves with that rule's label.
C17_LastGenericRuleWins ==
    Done => \A i \in DOMAIN given :
                LET m == GenericRulesMatched(given[i])
                IN  (m # {} /\ ~TakenBySubjectBlock(given[i], stages.cluster[i]))
                        => \E k \in m :
                              /\ \A l \in m : l <= k
                              /\ stages.heuristics[i] = GenericOrder[k]

\* config.tmp outside a project directory matches the configuration and
\* the temporary rule and leaves the pass as Temporary.
C17_Witness ==
    /\ Done
    /\ \E i \in DOMAIN given :
        /\ given[i].name = "config.tmp"
        /\ GenericRulesMatched(given[i]) = {1, 4}
        /\ stages.heuristics[i] = "Temporary"

\* C18: the generic rules run before the cluster stage as well as after
\* it, so a record whose name or path matches a generic rule is never among
\* the unresolved records: it never gets a 'Group N' label, not even between
\* the stages, and the model is trained only when a record matching no
\* generic rule is still 'Other'.
C18_GenericRulesBeforeCluster ==
    Done =>
        /\ \A i \in DOMAIN given :
              <<given[i].name, given[i].path>> \in GenericMatches
                  => ~IsGroupLabel(stages.cluster[i])
        /\ call.fit # "none" =>
              \E i \in DOMAIN given :
                  /\ stages.subject[i] = "Other"
                  /\ <<given[i].name, given[i].path>> \notin GenericMatches

\* C19: when fit or predict raises in a call, every record that was 'Other'
\* when the cluster stage started is 'Other' when it ends -- no 'Group N' is
\* written in that call -- also when an earlier call trained the model and
\* this call's fit raises.
C19_FailureLeavesOther ==
    (Done /\ (call.fit = "raised" \/ call.predict = "raised")) =>
        \A i \in DOMAIN given :
            stages.subject[i] = "Other" => stages.cluster[i] = "Other"

\* C20: in the list categorize_files returns, no record whose name or path
\* matches a generic rule has a 'Group N' category: the heuristic pass after
\* the cluster stage relabels it, and the regrouping that follows writes
\* subjects only.
C20_NoGroupLabelOnGenericMatch ==
    Done => \A i \in DOMAIN files :
                <<files[i].name, files[i].path>> \in GenericMatches
                    => ~IsGroupLabel(files[i].category)

\* cache.xyz, labelled 'Group N' by the cluster stage of a call on ten
\* records, is returned as Temporary.
C20_Witness ==
    /\ Done
    /\ \E i \in DOMAIN files :
        /\ files[i].name = "cache.xyz"
        /\ IsGroupLabel(stages.cluster[i])
        /\ files[i].category = "Temporary"

(***************************************************************************)
(* Properties of the consensus regrouping.                                  *)
(***************************************************************************)
\* The base names longer than 3 characters that two or more of the records
\* given share.
SharedBaseNames ==
    {b \in {BaseName(given[i]) : i \in DOMAIN given} :
        /\ Len(b) > 3
        /\ Cardinality({i \in DOMAIN given : BaseName(given[i]) = b}) >= 2}

\* The records given whose base name is b.
Members(b) == {i \in DOMAIN given : BaseName(given[i]) = b}

\* How many members of the group of b enter the regrouping with category c.
CountBefore(b, c) ==
    Cardinality({i \in Members(b) : stages.heuristics[i] = c})

\* The categories no other category of the group of b outnumbers.
TopCategories(b) ==
    {c \in {stages.heuristics[i] : i \in Members(b)} :
        \A i \in Members(b) :
            CountBefore(b, stages.heuristics[i]) <= CountBefore(b, c)}

\* C21: for every group of two or more records sharing a base name longer
\* than 3 characters, the regrouping overwrites the members' categories if
\* and only if the group's most common category is a subject: then every
\* member ends with it, and otherwise no member is changed.
C21_SubjectMajorityPropagates ==
    Done => \A b \in SharedBaseNames :
                \E c \in TopCategories(b) :
                    /\ c \in AcademicSubjects =>
                          \A i \in Members(b) : files[i].category = c
                    /\ c \notin AcademicSubjects =>
                          \A i \in Members(b) :
                              files[i].category = stages.heuristics[i]

\* A call on ten records: the calculus files, most of them Mathematics, all
\* end as Mathematics, one of them changed; the eight images, a group whose
\* most common category is Images, are left as they were.
C21_Witness ==
    /\ Done
    /\ Cardinality(SharedBaseNames) = 2
    /\ \E b \in SharedBaseNames :
          /\ TopCategories(b) = {"Mathematics"}
          /\ \E i \in Members(b) : stages.heuristics[i] # "Mathematics"
          /\ \A i \in Members(b) : files[i].category = "Mathematics"
    /\ \E b \in SharedBaseNames :
          /\ TopCategories(b) = {"Images"}
          /\ \A i \in Members(b) : files[i].category = "Images"

\* Of the categories tied for the highest count in the group of b, the one
\* met first in the order of the records.
FirstSeenTop(b) ==
    LET first == CHOOSE i \in Members(b) :
                    /\ stages.heuristics[i] \in TopCategories(b)
                    /\ \A j \in Members(b) :
                          stages.heuristics[j] \in TopCategories(b) => i <= j
    IN  stages.heuristics[first]

\* C22: when two or more categories tie for the highest count of a group,
\* the majority is the tied category met first in the group's record
\* order, so the outcome of the regrouping is fixed by the input order: the
\* members all end with it when it is a subject and are left unchanged when
\* it is not.
C22_TieFirstSeen ==
    Done => \A b \in SharedBaseNames :
                Cardinality(TopCategories(b)) >= 2 =>
                    LET c == FirstSeenTop(b)
                    IN  /\ c \in AcademicSubjects =>
                              \A i \in Members(b) : files[i].category = c
                        /\ c \notin AcademicSubjects =>
                              \A i \in Members(b) :
                                  files[i].category = stages.heuristics[i]

(***************************************************************************)
(* Properties of the vector tier and of the result list.                   *)
(***************************************************************************)
\* The place of a returned record in the filtered list.
FilteredPlaceOf(r) == CHOOSE k \in DOMAIN MeetingFilters : MeetingFilters[k] = r

\* The similarity lines 268 gave the record at a place of the result.
ScoreAt(i) == search.vector.similarities[FilteredPlaceOf(search.result[i])]

\* The result of the vector tier is exactly the filtered records at or
\* above the threshold, each once, and the scores never go up along it.
VectorRankedByScore ==
    (Answered /\ search.tier = "vector") =>
        /\ {search.result[i] : i \in DOMAIN search.result}
             = {MeetingFilters[k] : k \in {j \in DOMAIN MeetingFilters :
                    search.vector.similarities[j] >= SimilarityThreshold}}
        /\ \A i, j \in DOMAIN search.result :
              /\ i # j => search.result[i] # search.result[j]
              /\ i < j => ScoreAt(i) >= ScoreAt(j)

AloneResult(t) ==
    SearchFiles(files, threads.at[t].query, threads.at[t].filters,
                threads.at[t].alone).result

C25_SerializedLabelsFromOwnFit ==
    (Done /\ Len(given) >= MinCorpusSize /\ call.predict = "ok") =>
        call.fit = "ok"

(***************************************************************************)
(* Properties of the categories of a result.                               *)
(***************************************************************************)
\* The fixed set of categories: the ten of the extension table, 'Other',
\* the five subjects, the six generic labels and 'Group 1' .. 'Group 10'.
CategoryDomain ==
    {"Documents", "Spreadsheets", "Presentations", "Images", "Audio",
     "Video", "Archives", "Code", "Executables", "System"}
    \cup {"Other"}
    \cup {"Engineering_Drawing", "Mathematics", "Physics", "Chemistry",
          "Computer_Science"}
    \cup {"Configuration", "Database", "Backup", "Temporary", "Project",
          "Fonts"}
    \cup {"Group " \o IntToStr(k) : k \in 1..10}

\* C26: after any sequence of categorize_files calls every record's
\* category is in the fixed set; the extension table and the subject table
\* name no category outside it.
C26_CategoryDomain ==
    /\ \A e \in DOMAIN extension_categories :
            extension_categories[e] \in CategoryDomain
    /\ AcademicSubjects \subseteq CategoryDomain
    /\ Done => \A i \in DOMAIN files : files[i].category \in CategoryDomain

\* A second call on ten files or more whose result has a cluster label, a
\* subject or generic label and a label of the extension table.
C26_Witness ==
    /\ Done
    /\ call.wasTrained
    /\ \E i \in DOMAIN files : IsGroupLabel(files[i].category)
    /\ \E i \in DOMAIN files :
            files[i].category \in AcademicSubjects \cup GenericLabels
    /\ \E i \in DOMAIN files : files[i].category = "Images"

\* C27: when the predict of a categorize_files call succeeds, no record of
\* its result is 'Other': every record that was 'Other' after the subject
\* pass gets a 'Group N' label in the cluster stage, and neither the
\* heuristic pass nor the consensus regrouping ever writes 'Other'.
C27_NoOtherAfterPredict ==
    Done =>
        /\ \A i \in DOMAIN files :
              /\ stages.heuristics[i] = "Other" => stages.cluster[i] = "Other"
              /\ files[i].category = "Other" => stages.heuristics[i] = "Other"
        /\ call.predict = "ok" =>
              \A i \in DOMAIN files :
                  /\ stages.subject[i] = "Other" =>
                        IsGroupLabel(stages.cluster[i])
                  /\ files[i].category # "Other"

\* A call whose predict succeeds on two unresolved records, one of which
\* the heuristic pass then relabels.
C27_Witness ==
    /\ Done
    /\ call.predict = "ok"
    /\ \E i, j \in DOMAIN files :
          /\ i # j
          /\ stages.subject[i] = "Other" /\ stages.subject[j] = "Other"
          /\ IsGroupLabel(files[i].category)
          /\ files[j].category \in GenericLabels

\* The records with the category scan_directory gives them.
Erased(fs) == List([i \in DOMAIN fs |-> [fs[i] EXCEPT !.category = None]])

\* What the call returns on a list, with the outcomes of fit, predict and
\* line 302 that the call met.
ResultOn(fs) ==
    LET s2 == IdentifyAcademicDocuments(ExtensionStage(fs))
        s3 == ClusterStage(s2, call.wasTrained, call.fit = "raised",
                           call.predict = "raised", call.labels)
    IN  GroupSimilarFiles(ApplyCategorizationHeuristics(s3), call.pick)

\* C28: categorize_files ignores the categories its records arrive with:
\* the result is the one of the same call on the records without their
\* categories, and a call on the return value of the last call, in the
\* same classifier state and with the same clustering, changes no category.
C28_InputCategoriesIgnored ==
    /\ [](Done => Categories(files) = Categories(ResultOn(Erased(given))))
    /\ [][CategorizeAgain => Categories(files') = Categories(files)]_vars

\* A second call on the ten records the first call returned, among them a
\* cluster label, which leaves the categories as they were.
C28_Witness ==
    /\ Done
    /\ Len(files) >= MinCorpusSize
    /\ \A i \in DOMAIN given : given[i].category # None
    /\ Categories(given) = Categories(files)
    /\ \E i \in DOMAIN files : IsGroupLabel(files[i].category)

\* C29: whatever the query, the filters and the tier that answers, the list
\* search_files returns holds only records of files_data, unmodified, each
\* at most once, and is never longer than the list of the records that
\* pass the filters.
C29_ResultWithinInput ==
    Answered =>
        /\ \A i \in DOMAIN search.result :
              \E j \in DOMAIN files : search.result[i] = files[j]
        /\ \A i, j \in DOMAIN search.result :
              i # j => search.result[i] # search.result[j]
        /\ Len(search.result) <= Len(MeetingFilters)
        /\ search.tier \in {"filter", "keyword", "vector", "fallback", "except"}

\* A single-token query answered with a name that starts with it followed
\* by a name that only contains it, while the filters drop a third file.
C29_Witness ==
    /\ Answered
    /\ search.tier = "keyword"
    /\ Len(files) = MaxSearchFiles
    /\ Len(search.result) = 2
    /\ Len(MeetingFilters) = 2
    /\ NameStartsWithQuery(search.result[1])
    /\ ~NameStartsWithQuery(search.result[2])

(***************************************************************************)
(* Properties of the subject blocks of the heuristic pass.                 *)
(***************************************************************************)
\* The keywords of academic_patterns.
AcademicKeywords ==
    UNION {{academic_patterns[k].keywords[j] :
                j \in DOMAIN academic_patterns[k].keywords} :
           k \in DOMAIN academic_patterns}

\* C30: inside categorize_files a subject block of the heuristic pass fires
\* only through 'technical': every other keyword of the blocks is a keyword
\* of academic_patterns, so the only records that skip the generic rules
\* enter the pass as Documents with 'technical' in the name and no keyword
\* of academic_patterns in name or path, and they leave it as
\* Engineering_Drawing.
C30_BlockOnlyThroughTechnical ==
    /\ BlockKeywords \ {"technical"} \subseteq AcademicKeywords
    /\ Done => \A i \in DOMAIN given :
          /\ TakenBySubjectBlock(given[i], stages.cluster[i]) =>
                /\ Contains(Lower(given[i].name), "technical")
                /\ SubjectsMatching(given[i].name, given[i].path) = {}
                /\ stages.heuristics[i] = "Engineering_Drawing"
          /\ (MatchesGenericRule(given[i].name, given[i].path)
              /\ stages.heuristics[i] \notin GenericLabels) =>
                TakenBySubjectBlock(given[i], stages.cluster[i])

\* A Documents record named after 'technical' that matches a generic rule
\* and leaves the pass as Engineering_Drawing.
C30_Witness ==
    /\ Done
    /\ \E i \in DOMAIN given :
          /\ TakenBySubjectBlock(given[i], stages.cluster[i])
          /\ Contains(Lower(given[i].name), "technical")
          /\ MatchesGenericRule(given[i].name, given[i].path)
          /\ stages.heuristics[i] = "Engineering_Drawing"
          /\ files[i].category = "Engineering_Drawing"
=============================================================================
